---- MODULE Spec2Model ----
(***************************************************************************)
(* angulus: unit-agnostic angles.  Angle<F> keeps its radians in the main  *)
(* range (-PI, PI]; AngleUnbounded<F> keeps them as given.  F is f32 or    *)
(* f64 (src/src/float.rs).  The floating-point operations the crate uses   *)
(* (+ - * / % and the comparisons of IEEE-754 binary32 / binary64, round   *)
(* to nearest, ties to even) are computed exactly here, on arbitrary-size  *)
(* naturals, so that every value below is the value the program computes.  *)
(***************************************************************************)
EXTENDS Integers, Sequences, FiniteSets, TLC

(***************************************************************************)
(* Naturals of arbitrary size: little-endian sequences of 15-bit limbs     *)
(* without leading zero limbs; zero is the empty sequence.                 *)
(***************************************************************************)
LimbBits == 15
Base == 32768

RECURSIVE BTrim(_)
BTrim(a) ==
    IF a = <<>> THEN a
    ELSE IF a[Len(a)] = 0 THEN BTrim(SubSeq(a, 1, Len(a) - 1)) ELSE a

BNat(n) == BTrim(<<n % Base, (n \div Base) % Base, n \div (Base * Base)>>)

BOne == <<1>>

RECURSIVE BAddC(_, _, _)
BAddC(a, b, c) ==
    IF b = <<>> /\ c = 0 THEN a
    ELSE IF a = <<>> /\ c = 0 THEN b
    ELSE IF a = <<>> /\ b = <<>> THEN <<c>>
    ELSE LET x == IF a = <<>> THEN 0 ELSE a[1]
             y == IF b = <<>> THEN 0 ELSE b[1]
             t == x + y + c
         IN  <<t % Base>> \o BAddC(IF a = <<>> THEN a ELSE Tail(a),
                                   IF b = <<>> THEN b ELSE Tail(b),
                                   t \div Base)

BAdd(a, b) == BAddC(a, b, 0)

RECURSIVE BSubC(_, _, _)
BSubC(a, b, c) ==
    IF b = <<>> /\ c = 0 THEN a
    ELSE LET y == IF b = <<>> THEN 0 ELSE b[1]
             t == a[1] - y - c
         IN  <<IF t < 0 THEN t + Base ELSE t>>
               \o BSubC(Tail(a), IF b = <<>> THEN b ELSE Tail(b),
                        IF t < 0 THEN 1 ELSE 0)

\* a - b for a >= b
BSub(a, b) == BTrim(BSubC(a, b, 0))

RECURSIVE BCmpAt(_, _, _)
BCmpAt(a, b, i) ==
    IF i = 0 THEN 0
    ELSE IF a[i] # b[i] THEN (IF a[i] < b[i] THEN -1 ELSE 1)
    ELSE BCmpAt(a, b, i - 1)

\* -1, 0, 1 as a < b, a = b, a > b
BCmp(a, b) ==
    IF Len(a) # Len(b) THEN (IF Len(a) < Len(b) THEN -1 ELSE 1)
    ELSE BCmpAt(a, b, Len(a))

RECURSIVE BMulS(_, _, _)
BMulS(a, k, c) ==
    IF a = <<>> THEN (IF c = 0 THEN <<>> ELSE <<c>>)
    ELSE LET t == a[1] * k + c
         IN  <<t % Base>> \o BMulS(Tail(a), k, t \div Base)

RECURSIVE BMulR(_, _)
BMulR(a, b) ==
    IF b = <<>> THEN <<>>
    ELSE LET rest == BMulR(a, Tail(b))
         IN  BAdd(BMulS(a, b[1], 0), IF rest = <<>> THEN rest ELSE <<0>> \o rest)

BMul(a, b) == IF a = <<>> \/ b = <<>> THEN <<>> ELSE BTrim(BMulR(a, b))

\* a * 2^n
BShl(a, n) ==
    IF a = <<>> THEN a
    ELSE [i \in 1..(n \div LimbBits) |-> 0] \o BMulS(a, 2^(n % LimbBits), 0)

\* floor(a / 2^n)
BShr(a, n) ==
    LET q == n \div LimbBits
        r == n % LimbBits
        d == IF q >= Len(a) THEN <<>> ELSE SubSeq(a, q + 1, Len(a))
    IN  BTrim([i \in 1..Len(d) |->
                 (d[i] \div 2^r)
                 + (IF i < Len(d) THEN (d[i + 1] % 2^r) * 2^(LimbBits - r) ELSE 0)])

\* the n low bits of a are all zero
BLowZero(a, n) ==
    \A i \in 1..Len(a) :
        /\ (i <= n \div LimbBits) => a[i] = 0
        /\ (i = n \div LimbBits + 1) => a[i] % 2^(n % LimbBits) = 0

\* bit i of a (bit 0 is the lowest)
BBit(a, i) ==
    IF i \div LimbBits + 1 > Len(a) THEN 0
    ELSE (a[i \div LimbBits + 1] \div 2^(i % LimbBits)) % 2

BBitLen(a) ==
    IF a = <<>> THEN 0
    ELSE LimbBits * (Len(a) - 1)
         + (CHOOSE n \in 1..LimbBits : 2^(n - 1) <= a[Len(a)] /\ a[Len(a)] < 2^n)

\* number of trailing zero bits of a # 0
BTz(a) == CHOOSE n \in 0..(LimbBits * Len(a)) : BBit(a, n) = 1 /\ BLowZero(a, n)

\* an estimate of the largest d < Base with b * d <= R from the top limbs of
\* R < b * Base and b; at most 2 too large when the top limb of b is >= Base / 2
BQEst(R, b) ==
    LET nb == Len(b)
        hi == IF Len(R) > nb THEN R[nb + 1] ELSE 0
        lo == IF Len(R) >= nb THEN R[nb] ELSE 0
        q  == (hi * Base + lo) \div b[nb]
    IN  IF q > Base - 1 THEN Base - 1 ELSE q

\* the largest d' <= d with b * d' <= R
RECURSIVE BQFix(_, _, _)
BQFix(R, b, d) ==
    IF d > 0 /\ BCmp(BTrim(BMulS(b, d, 0)), R) > 0 THEN BQFix(R, b, d - 1) ELSE d

\* long division of a by b # 0, one limb of a at a time from the top
\* (the test on qr.r only makes each step compute its operand)
RECURSIVE BDivLimbs(_, _, _, _)

\* the step for the running remainder R and its quotient digit d
BDivDigit(a, b, j, qr, R, d) ==
    BDivLimbs(a, b, j - 1, [q |-> <<d>> \o qr.q, r |-> BSub(R, BTrim(BMulS(b, d, 0)))])

BDivStep(a, b, j, qr, R) == BDivDigit(a, b, j, qr, R, BQFix(R, b, BQEst(R, b)))

BDivLimbs(a, b, j, qr) ==
    IF j = 0 \/ qr.r = <<-1>> THEN qr
    ELSE BDivStep(a, b, j, qr, BTrim(<<a[j]>> \o qr.r))

\* the quotient trimmed and the remainder shifted back
BDivOut(res, sh) == [q |-> BTrim(res.q), r |-> BShr(res.r, sh)]

BDivFrom(an, bn, sh) == BDivOut(BDivLimbs(an, bn, Len(an), [q |-> <<>>, r |-> <<>>]), sh)

BDivShifted(a, b, sh) == BDivFrom(BShl(a, sh), BShl(b, sh), sh)

\* quotient and remainder of a by b # 0, both shifted to make the top limb of b large
BDivMod(a, b) == BDivShifted(a, b, LimbBits - BBitLen(<<b[Len(b)]>>))

BMod(a, b) == IF BCmp(a, b) < 0 THEN a ELSE BDivMod(a, b).r

\* (h * h * 2^odd) mod b
BSqMod(h, odd, b) == BMod(BShl(BMul(h, h), odd), b)

\* 2^d mod b by repeated squaring
RECURSIVE BPow2Mod(_, _)
BPow2Mod(d, b) ==
    IF d <= 2 * LimbBits THEN BMod(BShl(BOne, d), b)
    ELSE BSqMod(BPow2Mod(d \div 2, b), d % 2, b)

\* the natural written in decimal as the 9-digit groups g, most significant first
RECURSIVE BDec(_)
BDec(g) ==
    IF g = <<>> THEN <<>>
    ELSE BAdd(BMul(BDec(SubSeq(g, 1, Len(g) - 1)), BNat(10^9)), BNat(g[Len(g)]))

RECURSIVE BPow10(_)
BPow10(n) == IF n = 0 THEN BOne ELSE BMulS(BPow10(n - 1), 10, 0)

(***************************************************************************)
(* Floating-point values.  A finite value is (-1)^s * m * 2^e with m odd   *)
(* (m = 0, e = 0 for the two zeros), so a value has one representation in  *)
(* both formats and f32 -> f64 is exact.  There is one NaN.                *)
(***************************************************************************)
NaN == [k |-> "nan", s |-> 0, m |-> <<>>, e |-> 0]
Inf(s) == [k |-> "inf", s |-> s, m |-> <<>>, e |-> 0]
Zero(s) == [k |-> "fin", s |-> s, m |-> <<>>, e |-> 0]

Mk(s, m, e) ==
    IF m = <<>> THEN Zero(s)
    ELSE LET tz == BTz(m) IN [k |-> "fin", s |-> s, m |-> BShr(m, tz), e |-> e + tz]

IsNaN(v) == v.k = "nan"
IsInf(v) == v.k = "inf"
IsZero(v) == v.k = "fin" /\ v.m = <<>>
IsFinite(v) == v.k = "fin"

\* binary32 and binary64: precision p, exponent range of the normal numbers
F32 == [name |-> "f32", p |-> 24, emin |-> -126, emax |-> 127]
F64 == [name |-> "f64", p |-> 53, emin |-> -1022, emax |-> 1023]

\* exponent of the leading bit of a finite nonzero value
Top(v) == v.e + BBitLen(v.m) - 1

\* (-1)^s * (m + f) * 2^e rounded to nearest, ties to even, in format F,
\* where 0 <= f < 1 and st says f > 0 (st only with m of more than p + 1 bits)
\* the rounded mantissa q1 at exponent t
RoundOut(F, s, q1, t) ==
    IF q1 = <<>> THEN Zero(s)
    ELSE IF t + BBitLen(q1) - 1 > F.emax THEN Inf(s)
    ELSE Mk(s, q1, t)

\* q with the half bit and the bits below it: up on more than half, or on half to even
RoundUp(F, s, q, t, half, low) ==
    RoundOut(F, s, IF half /\ (low \/ BBit(q, 0) = 1) THEN BAddC(q, <<>>, 1) ELSE q, t)

\* m cut at the exponent t of the last place kept
RoundCut(F, s, m, e, st, t) ==
    IF t <= e
    THEN (IF e + BBitLen(m) - 1 > F.emax THEN Inf(s) ELSE Mk(s, m, e))
    ELSE RoundUp(F, s, BShr(m, t - e), t,
                 BBit(m, t - e - 1) = 1, st \/ ~BLowZero(m, t - e - 1))

\* the larger of two integers
IMax(i, j) == IF i > j THEN i ELSE j

Round(F, s, m, e, st) ==
    IF m = <<>> THEN Zero(s)
    ELSE RoundCut(F, s, m, e, st, IMax(e + BBitLen(m) - F.p, F.emin - F.p + 1))

\* (-1)^s * (n / d) * 2^e rounded in format F, for naturals n, d # 0
RoundQuotient(F, s, qr, e) == Round(F, s, qr.q, e, qr.r # <<>>)

RoundShifted(F, s, n, d, e, sh) == RoundQuotient(F, s, BDivMod(BShl(n, sh), d), e - sh)

RoundRatio(F, s, n, d, e) ==
    RoundShifted(F, s, n, d, e, IMax(F.p + 3 + BBitLen(d) - BBitLen(n), 0))

\* the float a decimal literal denotes: digit groups g with nd decimals
FDec(F, g, nd) == RoundRatio(F, 0, BDec(g), BPow10(nd), 0)

\* a small integer as a float
FInt(n) == Mk(IF n < 0 THEN 1 ELSE 0, BNat(IF n < 0 THEN -n ELSE n), 0)

\* `as f32` / f64::from: the value in the other format
FCast(F, v) == IF v.k # "fin" THEN v ELSE Round(F, v.s, v.m, v.e, FALSE)

\* -1, 0, 1 comparing the magnitudes of two finite values
MagCmp(a, b) ==
    IF a.m = <<>> \/ b.m = <<>>
    THEN (IF a.m = b.m THEN 0 ELSE IF a.m = <<>> THEN -1 ELSE 1)
    ELSE IF Top(a) # Top(b) THEN (IF Top(a) < Top(b) THEN -1 ELSE 1)
    ELSE IF a.e <= b.e THEN BCmp(a.m, BShl(b.m, b.e - a.e))
    ELSE BCmp(BShl(a.m, a.e - b.e), b.m)

\* the order of the magnitudes c turned round for negative values
FSigned(s, c) == IF s = 1 THEN -c ELSE c

\* -1, 0, 1 comparing two values that are not NaN; -0 = +0
FCmp(a, b) ==
    IF IsZero(a) /\ IsZero(b) THEN 0
    ELSE IF a.s # b.s THEN (IF a.s = 1 THEN -1 ELSE 1)
    ELSE FSigned(a.s, IF a.k = "inf" \/ b.k = "inf"
                      THEN (IF a.k = b.k THEN 0 ELSE IF a.k = "inf" THEN 1 ELSE -1)
                      ELSE MagCmp(a, b))

\* the comparison operators of f32 / f64: false when an operand is NaN
FEq(a, b) == ~IsNaN(a) /\ ~IsNaN(b) /\ FCmp(a, b) = 0
FLt(a, b) == ~IsNaN(a) /\ ~IsNaN(b) /\ FCmp(a, b) < 0
FLe(a, b) == ~IsNaN(a) /\ ~IsNaN(b) /\ FCmp(a, b) <= 0
FGt(a, b) == FLt(b, a)
FGe(a, b) == FLe(b, a)

FNeg(a) == IF IsNaN(a) THEN a ELSE [a EXCEPT !.s = 1 - @]

\* the smaller of the two exponents
FMinExp(a, b) == IF a.e < b.e THEN a.e ELSE b.e

\* the sum of sa * x * 2^e0 and sb * y * 2^e0 where c compares x with y
FAddSigned(F, sa, x, sb, y, e0, c) ==
    IF sa # sb /\ c = 0 THEN Zero(0)
    ELSE Round(F, IF sa = sb \/ c > 0 THEN sa ELSE sb,
               IF sa = sb THEN BAdd(x, y) ELSE IF c > 0 THEN BSub(x, y) ELSE BSub(y, x),
               e0, FALSE)

FAddAligned(F, sa, x, sb, y, e0) == FAddSigned(F, sa, x, sb, y, e0, BCmp(x, y))

FAdd(F, a, b) ==
    IF IsNaN(a) \/ IsNaN(b) THEN NaN
    ELSE IF IsInf(a) \/ IsInf(b)
    THEN (IF IsInf(a) /\ IsInf(b) /\ a.s # b.s THEN NaN
          ELSE IF IsInf(a) THEN a ELSE b)
    ELSE IF IsZero(a) /\ IsZero(b) THEN Zero(IF a.s = 1 /\ b.s = 1 THEN 1 ELSE 0)
    ELSE IF IsZero(a) THEN b
    ELSE IF IsZero(b) THEN a
    \* an operand below a quarter of the last place of the other changes nothing
    ELSE IF Top(a) - Top(b) > F.p + 2 THEN a
    ELSE IF Top(b) - Top(a) > F.p + 2 THEN b
    ELSE FAddAligned(F, a.s, BShl(a.m, a.e - FMinExp(a, b)),
                     b.s, BShl(b.m, b.e - FMinExp(a, b)), FMinExp(a, b))

FSub(F, a, b) == FAdd(F, a, FNeg(b))

FMul(F, a, b) ==
    IF IsNaN(a) \/ IsNaN(b) THEN NaN
    ELSE IF (IsInf(a) /\ IsZero(b)) \/ (IsZero(a) /\ IsInf(b)) THEN NaN
    ELSE IF IsInf(a) \/ IsInf(b) THEN Inf((a.s + b.s) % 2)
    ELSE Round(F, (a.s + b.s) % 2, BMul(a.m, b.m), a.e + b.e, FALSE)

FDiv(F, a, b) ==
    IF IsNaN(a) \/ IsNaN(b) THEN NaN
    ELSE IF (IsInf(a) /\ IsInf(b)) \/ (IsZero(a) /\ IsZero(b)) THEN NaN
    ELSE IF IsInf(a) \/ IsZero(b) THEN Inf((a.s + b.s) % 2)
    ELSE IF IsInf(b) \/ IsZero(a) THEN Zero((a.s + b.s) % 2)
    ELSE RoundRatio(F, (a.s + b.s) % 2, a.m, b.m, a.e - b.e)

\* the % of f32 / f64 (fmod): exact, truncating, with the sign of a
FRem(a, b) ==
    IF IsNaN(a) \/ IsNaN(b) \/ IsInf(a) \/ IsZero(b) THEN NaN
    ELSE IF IsInf(b) \/ IsZero(a) THEN a
    ELSE IF MagCmp(a, b) < 0 THEN a
    ELSE IF a.e >= b.e
    THEN Mk(a.s, BMod(BMul(BMod(a.m, b.m), BPow2Mod(a.e - b.e, b.m)), b.m), b.e)
    ELSE Mk(a.s, BMod(a.m, BShl(b.m, b.e - a.e)), a.e)

(***************************************************************************)
(* src/src/float.rs: the constants of the Float trait for f32 and f64.     *)
(* The core::f32::consts / core::f64::consts values are the decimal        *)
(* literals of the standard library rounded to the type.                   *)
(***************************************************************************)
ConstsOf(F) ==
    LET pi  == FDec(F, <<314159265, 358979323, 846264338, 327950288>>, 35)
        tau == FDec(F, <<628318530, 717958647, 692528676, 655900577>>, 35)
        eps == Mk(0, BOne, 1 - F.p)
    IN  [ZERO           |-> Zero(0),
         ONE            |-> FInt(1),
         EPSILON        |-> eps,
         DOUBLE_EPSILON |-> FMul(F, FInt(2), eps),
         TAU            |-> tau,
         PI             |-> pi,
         FRAC_PI_2      |-> FDec(F, <<157079632, 679489661, 923132169, 163975144>>, 35),
         FRAC_PI_3      |-> FDec(F, <<104719755, 119659774, 615421446, 109316763>>, 35),
         FRAC_PI_4      |-> FDec(F, <<785398163, 397448309, 615660845, 819875721>>, 36),
         FRAC_PI_6      |-> FDec(F, <<52359877, 559829887, 307710723, 54658381>>, 35),
         FRAC_PI_8      |-> FDec(F, <<39269908, 169872415, 480783042, 290993786>>, 35),
         DEG_TO_RAD     |-> FDiv(F, pi, FInt(180)),
         RAD_TO_DEG     |-> FDiv(F, FInt(180), pi),
         TURNS_TO_RAD   |-> tau,
         RAD_TO_TURNS   |-> FDiv(F, FInt(1), tau),
         GRAD_TO_RAD    |-> FDiv(F, pi, FInt(200)),
         RAD_TO_GRAD    |-> FDiv(F, FInt(200), pi)]

\* an odd mantissa and its exponent as a value
Lit(m, e) == [k |-> "fin", s |-> 0, m |-> m, e |-> e]

\* the values of ConstsOf(F32) and ConstsOf(F64), with their IEEE-754 encodings
Consts_f32 ==
    [ZERO           |-> Zero(0),                                   \* 0.0 = 0x00000000
     ONE            |-> Lit(<<1>>, 0),                             \* 1.0 = 0x3F800000
     EPSILON        |-> Lit(<<1>>, -23),                           \* EPSILON = 0x34000000
     DOUBLE_EPSILON |-> Lit(<<1>>, -22),                           \* 2.0 * EPSILON = 0x34800000
     TAU            |-> Lit(<<4059,402>>, -21),                    \* consts::TAU = 0x40C90FDB
     PI             |-> Lit(<<4059,402>>, -22),                    \* consts::PI = 0x40490FDB
     FRAC_PI_2      |-> Lit(<<4059,402>>, -23),                    \* consts::FRAC_PI_2 = 0x3FC90FDB
     FRAC_PI_3      |-> Lit(<<1353,134>>, -22),                    \* consts::FRAC_PI_3 = 0x3F860A92
     FRAC_PI_4      |-> Lit(<<4059,402>>, -24),                    \* consts::FRAC_PI_4 = 0x3F490FDB
     FRAC_PI_6      |-> Lit(<<1353,134>>, -23),                    \* consts::FRAC_PI_6 = 0x3F060A92
     FRAC_PI_8      |-> Lit(<<4059,402>>, -25),                    \* consts::FRAC_PI_8 = 0x3EC90FDB
     DEG_TO_RAD     |-> Lit(<<31285,285>>, -29),                   \* PI / 180.0 = 0x3C8EFA35
     RAD_TO_DEG     |-> Lit(<<10615,14>>, -13),                    \* 180.0 / PI = 0x42652EE0
     TURNS_TO_RAD   |-> Lit(<<4059,402>>, -21),                    \* TAU = 0x40C90FDB
     RAD_TO_TURNS   |-> Lit(<<31107,325>>, -26),                   \* 1.0 / TAU = 0x3E22F983
     GRAD_TO_RAD    |-> Lit(<<11773,257>>, -29),                   \* PI / 200.0 = 0x3C80ADFD
     RAD_TO_GRAD    |-> Lit(<<9693,509>>, -18)]                    \* 200.0 / PI = 0x427EA5DD

Consts_f64 ==
    [ZERO           |-> Zero(0),                                   \* 0.0 = 0x0000000000000000
     ONE            |-> Lit(<<1>>, 0),                             \* 1.0 = 0x3FF0000000000000
     EPSILON        |-> Lit(<<1>>, -52),                           \* EPSILON = 0x3CB0000000000000
     DOUBLE_EPSILON |-> Lit(<<1>>, -51),                           \* 2.0 * EPSILON = 0x3CC0000000000000
     TAU            |-> Lit(<<1443,21777,4349,25>>, -47),          \* consts::TAU = 0x401921FB54442D18
     PI             |-> Lit(<<1443,21777,4349,25>>, -48),          \* consts::PI = 0x400921FB54442D18
     FRAC_PI_2      |-> Lit(<<1443,21777,4349,25>>, -49),          \* consts::FRAC_PI_2 = 0x3FF921FB54442D18
     FRAC_PI_3      |-> Lit(<<14771,14381,676,67>>, -51),          \* consts::FRAC_PI_3 = 0x3FF0C152382D7366
     FRAC_PI_4      |-> Lit(<<1443,21777,4349,25>>, -50),          \* consts::FRAC_PI_4 = 0x3FE921FB54442D18
     FRAC_PI_6      |-> Lit(<<14771,14381,676,67>>, -52),          \* consts::FRAC_PI_6 = 0x3FE0C152382D7366
     FRAC_PI_8      |-> Lit(<<1443,21777,4349,25>>, -51),          \* consts::FRAC_PI_8 = 0x3FD921FB54442D18
     DEG_TO_RAD     |-> Lit(<<7481,17573,32026,142>>, -58),        \* PI / 180.0 = 0x3F91DF46A2529D39
     RAD_TO_DEG     |-> Lit(<<30783,1688,21230,28>>, -44),         \* 180.0 / PI = 0x404CA5DC1A63C1F8
     TURNS_TO_RAD   |-> Lit(<<1443,21777,4349,25>>, -47),          \* TAU = 0x401921FB54442D18
     RAD_TO_TURNS   |-> Lit(<<18563,23443,31937,162>>, -55),       \* 1.0 / TAU = 0x3FC45F306DC9C883
     GRAD_TO_RAD    |-> Lit(<<5005,4631,11135,64>>, -57),          \* PI / 200.0 = 0x3F9015BF9217271A
     RAD_TO_GRAD    |-> Lit(<<21075,21957,21691,63>>, -45)]        \* 200.0 / PI = 0x404FD4BBAB8B494C

Consts(F) == IF F.name = "f32" THEN Consts_f32 ELSE Consts_f64

ZERO(F) == Consts(F).ZERO
ONE(F) == Consts(F).ONE
EPSILON(F) == Consts(F).EPSILON
DOUBLE_EPSILON(F) == Consts(F).DOUBLE_EPSILON
TAU(F) == Consts(F).TAU
PI(F) == Consts(F).PI
DEG_TO_RAD(F) == Consts(F).DEG_TO_RAD
RAD_TO_DEG(F) == Consts(F).RAD_TO_DEG
TURNS_TO_RAD(F) == Consts(F).TURNS_TO_RAD
RAD_TO_TURNS(F) == Consts(F).RAD_TO_TURNS
GRAD_TO_RAD(F) == Consts(F).GRAD_TO_RAD
RAD_TO_GRAD(F) == Consts(F).RAD_TO_GRAD

\* f32::MAX / f64::MAX; f32::MIN / f64::MIN is its negation
MAX(F) == Mk(0, BSub(BShl(BOne, F.p), BOne), F.emax - F.p + 1)
MIN(F) == FNeg(MAX(F))

(***************************************************************************)
(* src/src/angle.rs: Angle<F> { radians: F }                               *)
(***************************************************************************)
from_radians_unchecked(radians) == [radians |-> radians]

\* the debug_assert! of from_radians_partially_unchecked
partially_unchecked_assert(F, radians) ==
    IsNaN(radians) \/ (FLe(FNeg(TAU(F)), radians) /\ FLe(radians, TAU(F)))

\* the correcting step left out
from_radians_partially_unchecked_uncorrected(F, radians) == from_radians_unchecked(radians)

\* the range closed at -PI and open at PI
from_radians_partially_unchecked_closed_below(F, radians) ==
    from_radians_unchecked(
        IF FGe(radians, PI(F)) THEN FSub(F, radians, TAU(F))
        ELSE IF FLt(radians, FNeg(PI(F))) THEN FAdd(F, radians, TAU(F))
        ELSE radians)

from_radians_partially_unchecked(F, radians) ==
    from_radians_unchecked(
        IF FGt(radians, PI(F)) THEN FSub(F, radians, TAU(F))
        ELSE IF FLe(radians, FNeg(PI(F))) THEN FAdd(F, radians, TAU(F))
        ELSE radians)

\* the remainder left out: only the single correction is applied
from_radians_without_rem(F, radians) == from_radians_partially_unchecked(F, radians)

\* the remainder taken by PI, half a turn, instead of TAU
from_radians_rem_pi(F, radians) == from_radians_partially_unchecked(F, FRem(radians, PI(F)))

from_radians(F, radians) == from_radians_partially_unchecked(F, FRem(radians, TAU(F)))

\* the degrees reduced by 360 first, as from_turns reduces by one turn
from_degrees_reduced_first(F, degrees) ==
    from_radians_partially_unchecked(F, FMul(F, FRem(degrees, FInt(360)), DEG_TO_RAD(F)))

from_degrees(F, degrees) == from_radians(F, FMul(F, degrees, DEG_TO_RAD(F)))

\* the turns multiplied without the remainder by one turn
from_turns_unreduced(F, turns) ==
    from_radians_partially_unchecked(F, FMul(F, turns, TURNS_TO_RAD(F)))

from_turns(F, turns) ==
    from_radians_partially_unchecked(F, FMul(F, FRem(turns, ONE(F)), TURNS_TO_RAD(F)))

\* the product handed to the single correction, the remainder left out
from_gradians_without_rem(F, gradians) ==
    from_radians_partially_unchecked(F, FMul(F, gradians, GRAD_TO_RAD(F)))

from_gradians(F, gradians) == from_radians(F, FMul(F, gradians, GRAD_TO_RAD(F)))

\* the named constants of Angle
AngleConst(F, c) == from_radians_unchecked(Consts(F)[c])

to_radians(self) == self.radians
to_degrees(F, self) == FMul(F, self.radians, RAD_TO_DEG(F))
to_turns(F, self) == FMul(F, self.radians, RAD_TO_TURNS(F))
\* the factor of the degrees used for the gradians
to_gradians_as_degrees(F, self) == FMul(F, self.radians, RAD_TO_DEG(F))

to_gradians(F, self) == FMul(F, self.radians, RAD_TO_GRAD(F))

is_nan(self) == IsNaN(self.radians)

\* #[derive(PartialEq)]: the == of the radians
AngleEq(a, b) == FEq(a.radians, b.radians)

\* src/src/unbounded.rs: AngleUnbounded<F> { radians: F }
Unbounded_from_radians(radians) == [radians |-> radians]
\* the product normalized as the bounded constructor does
Unbounded_from_degrees_normalized(F, degrees) == from_degrees(F, degrees)

Unbounded_from_degrees(F, degrees) == Unbounded_from_radians(FMul(F, degrees, DEG_TO_RAD(F)))
Unbounded_from_turns(F, turns) == Unbounded_from_radians(FMul(F, turns, TURNS_TO_RAD(F)))
Unbounded_from_gradians(F, gradians) == Unbounded_from_radians(FMul(F, gradians, GRAD_TO_RAD(F)))
Unbounded_to_radians(self) == self.radians
to_bounded(F, self) == from_radians(F, self.radians)

to_unbounded(self) == Unbounded_from_radians(self.radians)
from_unbounded(F, angle) == from_radians(F, Unbounded_to_radians(angle))

\* the debug_assert! of Angle<f32>::to_f64
to_f64_assert(self) ==
    LET radians == FCast(F64, self.radians)
    IN  IsNaN(radians) \/ (FLt(FNeg(PI(F64)), radians) /\ FLe(radians, PI(F64)))

to_f64(self) == from_radians_unchecked(FCast(F64, self.radians))

\* the narrowing cast stored without normalizing
to_f32_cast_only(self) == from_radians_unchecked(FCast(F32, self.radians))

\* normalized in f64 and then rounded, the wrong way round
to_f32_normalized_first(self) == from_radians_unchecked(FCast(F32, from_radians(F64, self.radians).radians))

to_f32(self) == from_radians(F32, FCast(F32, self.radians))

\* the raw sum stored as it is
add_unnormalized(F, self, rhs) == from_radians_unchecked(FAdd(F, self.radians, rhs.radians))

add(F, self, rhs) == from_radians(F, FAdd(F, self.radians, rhs.radians))
sub(F, self, rhs) == from_radians(F, FSub(F, self.radians, rhs.radians))
mul(F, self, rhs) == from_radians(F, FMul(F, self.radians, rhs))
\* the assignment forms: the new left operand, and the right operand after the call
\* a += rhs that adds the radians in place
add_assign_in_place(F, self, rhs) ==
    [self |-> from_radians_unchecked(FAdd(F, self.radians, rhs.radians)), rhs |-> rhs]

add_assign(F, self, rhs) == [self |-> add(F, self, rhs), rhs |-> rhs]
sub_assign(F, self, rhs) == [self |-> sub(F, self, rhs), rhs |-> rhs]
mul_assign(F, self, rhs) == [self |-> mul(F, self, rhs), rhs |-> rhs]

\* a division by zero answered with the dividend
div_guarded(F, self, rhs) ==
    IF IsZero(rhs) THEN self ELSE from_radians(F, FDiv(F, self.radians, rhs))

div(F, self, rhs) == from_radians(F, FDiv(F, self.radians, rhs))
div_assign(F, self, rhs) == [self |-> div(F, self, rhs), rhs |-> rhs]

\* the debug_assert! of neg
neg_assert(F, self) ==
    IsNaN(self.radians)
    \/ (FLt(FNeg(PI(F)), self.radians) /\ FLe(self.radians, PI(F)))

\* the negation without the special case of PI
neg_raw(F, self) == from_radians_unchecked(FNeg(self.radians))

neg(F, self) ==
    IF FEq(self.radians, PI(F)) THEN self
    ELSE from_radians_unchecked(FNeg(self.radians))

\* <F as Sum>::sum: the fold of + over the radians from the neutral element z
RECURSIVE FSum(_, _, _)
FSum(F, z, xs) ==
    IF xs = <<>> THEN z
    ELSE FAdd(F, FSum(F, z, SubSeq(xs, 1, Len(xs) - 1)), xs[Len(xs)])

\* iter.map(|x| x.radians)
Radians(iter) == [i \in 1..Len(iter) |-> iter[i].radians]

\* the raw sum stored without the final normalization
sum_unnormalized(F, z, iter) == from_radians_unchecked(FSum(F, z, Radians(iter)))

sum(F, z, iter) == from_radians(F, FSum(F, z, Radians(iter)))

\* iter.fold(Angle::ZERO, |a, b| a + b)
RECURSIVE fold_add(_, _)
fold_add(F, iter) ==
    IF iter = <<>> THEN AngleConst(F, "ZERO")
    ELSE LET a == fold_add(F, SubSeq(iter, 1, Len(iter) - 1))
         IN  \* a NaN accumulator stays NaN: is_nan(a) makes a a value before a + b starts
             IF is_nan(a) THEN a ELSE add(F, a, iter[Len(iter)])

\* ANGLES.map(Angle32::from_radians)
map_from_radians(F, rs) == [i \in 1..Len(rs) |-> from_radians(F, rs[i])]

\* assert_float_eq!(a, b, abs <= tol)
abs_le(F, a, b, tol) == LET d == FSub(F, a, b) IN FLe(d, tol) /\ FLe(FNeg(d), tol)

\* src/src/unbounded.rs: the operators of AngleUnbounded, on the stored radians
\* the sum wrapped into the main range, as Angle's + does
Unbounded_add_wrapped(F, self, rhs) == add(F, self, rhs)

Unbounded_add(F, self, rhs) == Unbounded_from_radians(FAdd(F, self.radians, rhs.radians))
Unbounded_sub(F, self, rhs) == Unbounded_from_radians(FSub(F, self.radians, rhs.radians))
Unbounded_mul(F, self, rhs) == Unbounded_from_radians(FMul(F, self.radians, rhs))
Unbounded_div(F, self, rhs) == Unbounded_from_radians(FDiv(F, self.radians, rhs))
Unbounded_neg(self) == Unbounded_from_radians(FNeg(self.radians))

\* the assignment forms of AngleUnbounded work on the radians in place
Unbounded_add_assign(F, self, rhs) ==
    [self |-> [self EXCEPT !.radians = FAdd(F, self.radians, rhs.radians)], rhs |-> rhs]
Unbounded_sub_assign(F, self, rhs) ==
    [self |-> [self EXCEPT !.radians = FSub(F, self.radians, rhs.radians)], rhs |-> rhs]
Unbounded_mul_assign(F, self, rhs) ==
    [self |-> [self EXCEPT !.radians = FMul(F, self.radians, rhs)], rhs |-> rhs]
Unbounded_div_assign(F, self, rhs) ==
    [self |-> [self EXCEPT !.radians = FDiv(F, self.radians, rhs)], rhs |-> rhs]

(***************************************************************************)
(* The values the operations are applied to.                               *)
(***************************************************************************)
\* how far around a constant its neighbouring floats are taken
MaxUlps == 1
\* how many angles a summed sequence holds besides the current one
MaxSumLen == 1
\* how many operations compute a new value from a constructed angle
MaxOps == 1

\* the float k units in the last place away from the positive normal v
Ulps(F, v, k) ==
    LET q == Top(v) - F.p + 1
        m == BShl(v.m, v.e - q)
    IN  Round(F, v.s, IF k < 0 THEN BSub(m, BNat(-k)) ELSE BAdd(m, BNat(k)), q, FALSE)

\* the smallest positive (subnormal) value
MinPositive(F) == Mk(0, BOne, F.emin - F.p + 1)

\* the largest float below one
PredOne(F) == FSub(F, ONE(F), Mk(0, BOne, -F.p))

\* non-finite values, the largest finite values and the zeros
Specials(F) == {NaN, Inf(0), Inf(1), MAX(F), MIN(F), Zero(0), Zero(1)}

Around(F, v) == {Ulps(F, v, k) : k \in -MaxUlps..MaxUlps}

RadiansIn(F) ==
    Around(F, PI(F)) \cup {FNeg(v) : v \in Around(F, PI(F))}
    \cup {TAU(F), FNeg(TAU(F)), FDiv(F, FInt(314), FInt(100)), MinPositive(F), FInt(10)}

DegreesIn(F) == {FInt(d) : d \in {90, 450, -270, 180, -180, 360, 30, 390}}

TurnsIn(F) ==
    {FDiv(F, FInt(t), FInt(4)) : t \in {1, 3, -2, 2, 6, 200}}
    \cup {PredOne(F), FNeg(PredOne(F))}

GradiansIn(F) == {FInt(g) : g \in {100, 500, -300, 200, -200, 50}}

Units == {"radians", "degrees", "turns", "gradians"}

RawInputs(F, unit) ==
    Specials(F) \cup
    CASE unit = "radians"  -> RadiansIn(F)
      [] unit = "degrees"  -> DegreesIn(F)
      [] unit = "turns"    -> TurnsIn(F)
      [] unit = "gradians" -> GradiansIn(F)

\* Angle::from_<unit> and AngleUnbounded::from_<unit>
Construct(F, unit, value) ==
    CASE unit = "radians"  -> from_radians(F, value)
      [] unit = "degrees"  -> from_degrees(F, value)
      [] unit = "turns"    -> from_turns(F, value)
      [] unit = "gradians" -> from_gradians(F, value)

ConstructUnbounded(F, unit, value) ==
    CASE unit = "radians"  -> Unbounded_from_radians(value)
      [] unit = "degrees"  -> Unbounded_from_degrees(F, value)
      [] unit = "turns"    -> Unbounded_from_turns(F, value)
      [] unit = "gradians" -> Unbounded_from_gradians(F, value)

\* the value handed to from_radians_partially_unchecked by a constructor
\* from_turns handing the scaled turns over without the remainder
PartialArg_turns_unreduced(F, unit, value) ==
    CASE unit = "radians"  -> FRem(value, TAU(F))
      [] unit = "degrees"  -> FRem(FMul(F, value, DEG_TO_RAD(F)), TAU(F))
      [] unit = "turns"    -> FMul(F, value, TURNS_TO_RAD(F))
      [] unit = "gradians" -> FRem(FMul(F, value, GRAD_TO_RAD(F)), TAU(F))

PartialArg(F, unit, value) ==
    CASE unit = "radians"  -> FRem(value, TAU(F))
      [] unit = "degrees"  -> FRem(FMul(F, value, DEG_TO_RAD(F)), TAU(F))
      [] unit = "turns"    -> FMul(F, FRem(value, ONE(F)), TURNS_TO_RAD(F))
      [] unit = "gradians" -> FRem(FMul(F, value, GRAD_TO_RAD(F)), TAU(F))

ConstNames == {"ZERO", "EPSILON", "PI", "FRAC_PI_2", "FRAC_PI_3",
               "FRAC_PI_4", "FRAC_PI_6", "FRAC_PI_8"}

\* Angle::EPSILON is from_radians_unchecked(F::DOUBLE_EPSILON)
AngleConstValue(F, c) ==
    IF c = "EPSILON" THEN from_radians_unchecked(DOUBLE_EPSILON(F)) ELSE AngleConst(F, c)

\* angles used as right operands of + and - and as elements of summed sequences
OperandAngles(F) ==
    {from_radians(F, r) : r \in {PI(F), FNeg(Ulps(F, PI(F), -1)), Consts(F).FRAC_PI_2, NaN}}

SumAngles(F) == {AngleConst(F, "PI")}

RECURSIVE SeqsUpTo(_, _)
SeqsUpTo(S, n) ==
    IF n = 0 THEN {<<>>}
    ELSE LET T == SeqsUpTo(S, n - 1) IN T \cup {Append(t, e) : t \in T, e \in S}

\* scalars used as right operands of * and /
Scalars(F) == {Zero(0), FInt(2), FInt(-3), FInt(1000000)}

\* a format wide enough to hold every sum of two f64 values
Exact == [name |-> "exact", p |-> 2^12, emin |-> -(2^12), emax |-> 2^12]

\* src/src/rand.rs: the Standard distribution, from a draw x of rng.gen::<F>()
\* the final negation left out: [-PI, PI)
Standard_radians_unnegated(F, x) == FSub(F, FMul(F, x, TAU(F)), PI(F))

Standard_radians(F, x) == FNeg(FSub(F, FMul(F, x, TAU(F)), PI(F)))

\* debug_assert!(-F::PI < x && x <= F::PI)
Standard_assert(F, x) == FLt(FNeg(PI(F)), x) /\ FLe(x, PI(F))

Standard_sample(F, x) == from_radians_unchecked(Standard_radians(F, x))


\* draws of the Standard distribution of floats, in [0, 1)
StandardDraws(F) ==
    {Zero(0), MinPositive(F), Mk(0, BOne, -1), PredOne(F)}
    \cup {Ulps(F, PredOne(F), -k) : k \in 1..MaxUlps}

\* src/src/rand.rs: UniformAngle::new and new_inclusive, the bounds handed to UniformFloat
UniformAngle_new(F, low, high) ==
    [low  |-> to_radians(low),
     high |-> IF FGt(to_radians(low), to_radians(high))
              THEN FAdd(F, to_radians(high), TAU(F)) ELSE to_radians(high)]

\* UniformAngle::sample, from the float x that UniformFloat drew
UniformAngle_sample(F, x) == from_radians(F, x)

\* the bounds as given, the order of the radians deciding whether the range is empty
UniformAngleUnbounded_new(low, high) ==
    [low |-> Unbounded_to_radians(low), high |-> Unbounded_to_radians(high)]

\* the draw wrapped into the main range, as UniformAngle::sample does
UniformAngleUnbounded_sample_wrapped(F, x) == from_radians(F, x)

UniformAngleUnbounded_sample(F, x) == Unbounded_from_radians(x)

\* AngleUnbounded is PartialOrd: a range is empty by the order of the radians, and
\* gen_range panics with "cannot sample empty range"
RangeIsEmpty(inclusive, low, high) ==
    IF inclusive THEN ~FLe(low.radians, high.radians) ELSE ~FLt(low.radians, high.radians)

\* bounds of sampled ranges of unbounded angles
UnboundedBounds(F) ==
    {Unbounded_from_radians(ZERO(F)), Unbounded_from_radians(Consts(F).FRAC_PI_2),
     Unbounded_from_degrees(F, FInt(450)), Unbounded_from_radians(FNeg(TAU(F)))}

\* the magnitude of a float
FAbs(x) == IF x.s = 1 THEN FNeg(x) ELSE x

\* the sign of Angle::cos for radians within a turn of zero: the magnitude against
\* PI/2, which no float equals; the f64 FRAC_PI_2 is the largest f32 or f64 value
\* below PI/2, so a magnitude is below PI/2 exactly when it is at most that constant
cos_sign(self) ==
    IF FLe(FAbs(self.radians), Consts_f64.FRAC_PI_2) THEN 1 ELSE -1

\* bounds of sampled ranges
RangeBounds(F) ==
    {AngleConst(F, "FRAC_PI_2"), neg(F, AngleConst(F, "FRAC_PI_2")),
     AngleConst(F, "ZERO"), AngleConst(F, "PI")}

\* floats that UniformFloat can draw between lo and hi, hi itself for an inclusive range
Draws(F, lo, hi, inclusive) ==
    {x \in {lo, hi, FDiv(F, FAdd(F, lo, hi), FInt(2))}
            \cup {Ulps(F, v, k) : v \in {w \in {lo, hi} : ~IsZero(w)}, k \in -MaxUlps..MaxUlps} :
        FLe(lo, x) /\ (IF inclusive THEN FLe(x, hi) ELSE FLt(x, hi))}

\* an f32 decimal literal with nd decimals
Dec32(digits, nd) == FDec(F32, <<digits>>, nd)

\* const ANGLES: [f32; 20] of the test angle_sum_is_accurate
\* written as sign, digits and number of decimals
ANGLES_literals ==
    <<
       <<0, 711889, 6>>, <<0, 61245656, 8>>, <<1, 11652113, 7>>,
       <<1, 1452307, 6>>, <<1, 5877855, 7>>, <<0, 5930065, 7>>,
       <<0, 12860533, 9>>, <<1, 11423496, 7>>, <<1, 13027769, 7>>,
       <<0, 5109096, 7>>, <<0, 23652492, 7>>, <<0, 17430168, 7>>,
       <<0, 11656357, 7>>, <<1, 21918228, 7>>, <<0, 25059144, 7>>,
       <<0, 498677, 6>>, <<0, 2496595, 6>>, <<1, 108386315, 9>>,
       <<0, 9914369, 7>>, <<1, 28355255, 7>>
    >>

Signed(s, v) == IF s = 1 THEN FNeg(v) ELSE v

ANGLES ==
    [i \in 1..Len(ANGLES_literals) |->
        Signed(ANGLES_literals[i][1], Dec32(ANGLES_literals[i][2], ANGLES_literals[i][3]))]

\* a sequence that repeats one value
Repeated(v, len) == [i \in 1..len |-> v]

\* sequences of f32 radians handed to the sum: the test's, and twenty times 3.14
SumInputs == {ANGLES, Repeated(Dec32(314, 2), Len(ANGLES_literals))}

\* src/src/units.rs: the unit wrappers Radians, Degrees, Turns, Gradians of an angle type
\* every wrapper built through the normalizing constructor of Angle
from_value_bounded(F, type, unit, x) == Construct(F, unit, x)

from_value(F, type, unit, x) ==
    IF type = "Angle" THEN Construct(F, unit, x) ELSE ConstructUnbounded(F, unit, x)

\* the getters of Angle and of AngleUnbounded compute the same product
to_value(F, unit, self) ==
    CASE unit = "radians"  -> to_radians(self)
      [] unit = "degrees"  -> to_degrees(F, self)
      [] unit = "turns"    -> to_turns(F, self)
      [] unit = "gradians" -> to_gradians(F, self)

\* src/src/serde.rs: a bare angle reads and writes radians, a wrapper its own unit
Wrappers == Units \cup {"bare"}

deserialize(F, type, wrapper, value) ==
    IF wrapper = "bare"
    THEN (IF type = "Angle" THEN from_radians(F, value) ELSE Unbounded_from_radians(value))
    ELSE from_value(F, type, wrapper, value)

serialize(F, wrapper, self) ==
    IF wrapper = "bare" THEN to_radians(self) ELSE to_value(F, wrapper, self)

\* the numbers of the documents of the tests should_deserialize
WireValues == {FInt(1), Mk(0, BOne, -1), FInt(270), FInt(50), FInt(150)}

\* right operands of the assignment operators
AssignOperands(F) == {AngleConst(F, "PI"), AngleConst(F, "FRAC_PI_2")}

AssignScalars(F) == {Zero(0), FInt(2)}

UnboundedAssignOperands(F) == {Unbounded_from_radians(TAU(F))}

UnboundedAssignScalars(F) == {FInt(-3)}

\* right operands of the operators of AngleUnbounded
UnboundedOperands(F) ==
    {Unbounded_from_radians(TAU(F)), Unbounded_from_degrees(F, FInt(450)),
     Unbounded_from_radians(Consts(F).FRAC_PI_2)}

UnboundedScalars(F) == {FInt(2), FInt(-3)}

(***************************************************************************)
(* One value of the crate, built by a constructor or taken from a named    *)
(* constant, and the operations applied to it.                             *)
(***************************************************************************)
VARIABLES
    F,      \* the float type of the value: F32 or F64
    ty,     \* "none" before construction, then "Angle" or "AngleUnbounded"; "panic" after a panic
    val,    \* the value: [radians |-> ...]
    last,   \* the last operation: its name, the radians it was applied to, its arguments
    ok,     \* no debug_assert! failed in the last operation
    n       \* the number of operations that computed a value since construction

vars == <<F, ty, val, last, ok, n>>

Op(name, prev, args) == [op |-> name, prev |-> prev, args |-> args]

Init ==
    /\ F \in {F32, F64}
    /\ ty = "none"
    /\ val = from_radians_unchecked(ZERO(F))
    /\ last = Op("none", NaN, <<>>)
    /\ ok = TRUE
    /\ n = 0

\* let a = Angle::from_<unit>(x)
New(unit, x) ==
    /\ ty = "none"
    /\ ty' = "Angle"
    /\ val' = Construct(F, unit, x)
    /\ last' = Op("from_" \o unit, NaN, <<x>>)
    /\ ok' = partially_unchecked_assert(F, PartialArg(F, unit, x))
    /\ UNCHANGED <<F, n>>

\* let a = Angle::<CONSTANT>
NewConst(c) ==
    /\ ty = "none"
    /\ ty' = "Angle"
    /\ val' = AngleConstValue(F, c)
    /\ last' = Op("const_" \o c, NaN, <<>>)
    /\ ok' = TRUE
    /\ UNCHANGED <<F, n>>

\* let a = AngleUnbounded::from_<unit>(x)
NewUnbounded(unit, x) ==
    /\ ty = "none"
    /\ ty' = "AngleUnbounded"
    /\ val' = ConstructUnbounded(F, unit, x)
    /\ last' = Op("unbounded_from_" \o unit, NaN, <<x>>)
    /\ ok' = TRUE
    /\ UNCHANGED <<F, n>>

\* let sum: Angle32 = rs.map(Angle32::from_radians).iter().copied().sum()
SumOf(z, rs) ==
    /\ ty = "none"
    /\ F = F32
    /\ ty' = "Angle"
    /\ val' = sum(F, z, map_from_radians(F, rs))
    /\ last' = Op("sum_of", NaN, Radians(map_from_radians(F, rs)))
    /\ ok' = partially_unchecked_assert(F, FRem(FSum(F, z, Radians(map_from_radians(F, rs))), TAU(F)))
    /\ UNCHANGED <<F, n>>

\* let a: Angle<F> = rng.gen(), let u: AngleUnbounded<F> = rng.gen()
NewStandard(type, x) ==
    /\ ty = "none"
    /\ ty' = type
    /\ val' = IF type = "Angle" THEN Standard_sample(F, x) ELSE to_unbounded(Standard_sample(F, x))
    /\ last' = Op("standard", NaN, <<x>>)
    /\ ok' = Standard_assert(F, Standard_radians(F, x))
    /\ UNCHANGED <<F, n>>

\* let a: Angle<F> = rng.gen_range(low..high), rng.gen_range(low..=high)
GenRange(inclusive, low, high, x) ==
    /\ ty = "none"
    /\ x \in Draws(F, UniformAngle_new(F, low, high).low, UniformAngle_new(F, low, high).high, inclusive)
    /\ ty' = "Angle"
    /\ val' = UniformAngle_sample(F, x)
    /\ last' = Op("gen_range", NaN, <<to_radians(low), to_radians(high), x>>)
    /\ ok' = partially_unchecked_assert(F, FRem(x, TAU(F)))
    /\ UNCHANGED <<F, n>>

\* let u: AngleUnbounded<F> = rng.gen_range(low..high), rng.gen_range(low..=high)
GenRangeUnbounded(inclusive, low, high, x) ==
    /\ ty = "none"
    /\ ~RangeIsEmpty(inclusive, low, high)
    /\ x \in Draws(F, UniformAngleUnbounded_new(low, high).low,
                    UniformAngleUnbounded_new(low, high).high, inclusive)
    /\ ty' = "AngleUnbounded"
    /\ val' = UniformAngleUnbounded_sample(F, x)
    /\ last' = Op("gen_range_unbounded", NaN, <<Unbounded_to_radians(low), Unbounded_to_radians(high), x>>)
    /\ UNCHANGED <<F, ok, n>>

\* the same with an empty range: the panic, and no value
GenRangeUnboundedEmpty(inclusive, low, high) ==
    /\ ty = "none"
    /\ RangeIsEmpty(inclusive, low, high)
    /\ ty' = "panic"
    /\ last' = Op("gen_range_unbounded", NaN, <<Unbounded_to_radians(low), Unbounded_to_radians(high)>>)
    /\ UNCHANGED <<F, val, ok, n>>

\* let a: Angle<F> or Unit<Angle<F>> or Unit<AngleUnbounded<F>> = serde_json::from_value(v)
Deserialize(type, wrapper, v) ==
    /\ ty = "none"
    /\ ty' = type
    /\ val' = deserialize(F, type, wrapper, v)
    /\ last' = Op("deserialize_" \o wrapper, NaN, <<v>>)
    /\ ok' = (type = "Angle" =>
                 partially_unchecked_assert(F, PartialArg(F, IF wrapper = "bare" THEN "radians" ELSE wrapper, v)))
    /\ UNCHANGED <<F, n>>

\* an operation on the bounded angle: its result and its assertion
Apply(name, args, result, asserted) ==
    /\ ty = "Angle"
    /\ n < MaxOps
    /\ n' = n + 1
    /\ val' = result
    /\ last' = Op(name, val.radians, args)
    /\ ok' = asserted
    /\ UNCHANGED <<F, ty>>

\* a + rhs
Add(rhs) ==
    Apply("add", <<rhs.radians>>, add(F, val, rhs),
          partially_unchecked_assert(F, FRem(FAdd(F, val.radians, rhs.radians), TAU(F))))

\* a - rhs
Sub(rhs) ==
    Apply("sub", <<rhs.radians>>, sub(F, val, rhs),
          partially_unchecked_assert(F, FRem(FSub(F, val.radians, rhs.radians), TAU(F))))

\* a * rhs, rhs * a
Mul(rhs) ==
    Apply("mul", <<rhs>>, mul(F, val, rhs),
          partially_unchecked_assert(F, FRem(FMul(F, val.radians, rhs), TAU(F))))

\* a / rhs
Div(rhs) ==
    Apply("div", <<rhs>>, div(F, val, rhs),
          partially_unchecked_assert(F, FRem(FDiv(F, val.radians, rhs), TAU(F))))

\* an assignment operator: the left operand is replaced, the right one is recorded
\* as it was before and as it is after the call
Assign(name, before, out, asserted) == Apply(name, <<before, out.rhs>>, out.self, asserted)

\* a += rhs
AddAssign(rhs) ==
    LET out == add_assign(F, val, rhs)
    IN  Assign("add_assign", rhs.radians, [out EXCEPT !.rhs = out.rhs.radians],
               partially_unchecked_assert(F, FRem(FAdd(F, val.radians, rhs.radians), TAU(F))))

\* a -= rhs
SubAssign(rhs) ==
    LET out == sub_assign(F, val, rhs)
    IN  Assign("sub_assign", rhs.radians, [out EXCEPT !.rhs = out.rhs.radians],
               partially_unchecked_assert(F, FRem(FSub(F, val.radians, rhs.radians), TAU(F))))

\* a *= rhs
MulAssign(rhs) ==
    Assign("mul_assign", rhs, mul_assign(F, val, rhs),
           partially_unchecked_assert(F, FRem(FMul(F, val.radians, rhs), TAU(F))))

\* a /= rhs
DivAssign(rhs) ==
    Assign("div_assign", rhs, div_assign(F, val, rhs),
           partially_unchecked_assert(F, FRem(FDiv(F, val.radians, rhs), TAU(F))))

\* -a
Neg == Apply("neg", <<>>, neg(F, val), neg_assert(F, val))

\* [a, xs...].into_iter().sum(); the neutral element of the float sum is a zero
Sum(z, xs) ==
    Apply("sum", <<z>> \o Radians(xs), sum(F, z, <<val>> \o xs),
          partially_unchecked_assert(F, FRem(FSum(F, z, Radians(<<val>> \o xs)), TAU(F))))

\* Angle<f64>::to_f32
ToF32 ==
    /\ F = F64
    /\ ty = "Angle"
    /\ n < MaxOps
    /\ n' = n + 1
    /\ F' = F32
    /\ val' = to_f32(val)
    /\ last' = Op("to_f32", val.radians, <<>>)
    /\ ok' = partially_unchecked_assert(F32, FRem(FCast(F32, val.radians), TAU(F32)))
    /\ UNCHANGED ty

\* Angle<f32>::to_f64: the radians are widened without loss, not computed
ToF64 ==
    /\ F = F32
    /\ ty = "Angle"
    /\ F' = F64
    /\ val' = to_f64(val)
    /\ last' = Op("to_f64", val.radians, <<>>)
    /\ ok' = to_f64_assert(val)
    /\ UNCHANGED <<ty, n>>

\* Angle::to_unbounded, AngleUnbounded::from(angle): the radians are copied, not computed
ToUnbounded ==
    /\ ty = "Angle"
    /\ ty' = "AngleUnbounded"
    /\ val' = to_unbounded(val)
    /\ last' = Op("to_unbounded", val.radians, <<>>)
    /\ ok' = TRUE
    /\ UNCHANGED <<F, n>>

\* AngleUnbounded::to_bounded, Angle::from(unbounded)
ToBounded ==
    /\ ty = "AngleUnbounded"
    /\ n < MaxOps
    /\ n' = n + 1
    /\ ty' = "Angle"
    /\ val' = to_bounded(F, val)
    /\ last' = Op("to_bounded", val.radians, <<>>)
    /\ ok' = partially_unchecked_assert(F, FRem(val.radians, TAU(F)))
    /\ UNCHANGED F

\* an operation on the unbounded angle
ApplyUnbounded(name, args, result) ==
    /\ ty = "AngleUnbounded"
    /\ n < MaxOps
    /\ n' = n + 1
    /\ val' = result
    /\ last' = Op(name, val.radians, args)
    /\ ok' = TRUE
    /\ UNCHANGED <<F, ty>>

\* u + rhs
UnboundedAdd(rhs) == ApplyUnbounded("unbounded_add", <<rhs.radians>>, Unbounded_add(F, val, rhs))

\* u - rhs
UnboundedSub(rhs) == ApplyUnbounded("unbounded_sub", <<rhs.radians>>, Unbounded_sub(F, val, rhs))

\* u * rhs, rhs * u
UnboundedMul(rhs) == ApplyUnbounded("unbounded_mul", <<rhs>>, Unbounded_mul(F, val, rhs))

\* u / rhs
UnboundedDiv(rhs) == ApplyUnbounded("unbounded_div", <<rhs>>, Unbounded_div(F, val, rhs))

\* an assignment operator of AngleUnbounded
UnboundedAssign(name, before, out) == ApplyUnbounded(name, <<before, out.rhs>>, out.self)

\* u += rhs
UnboundedAddAssign(rhs) ==
    LET out == Unbounded_add_assign(F, val, rhs)
    IN  UnboundedAssign("unbounded_add_assign", rhs.radians, [out EXCEPT !.rhs = out.rhs.radians])

\* u -= rhs
UnboundedSubAssign(rhs) ==
    LET out == Unbounded_sub_assign(F, val, rhs)
    IN  UnboundedAssign("unbounded_sub_assign", rhs.radians, [out EXCEPT !.rhs = out.rhs.radians])

\* u *= rhs
UnboundedMulAssign(rhs) ==
    UnboundedAssign("unbounded_mul_assign", rhs, Unbounded_mul_assign(F, val, rhs))

\* u /= rhs
UnboundedDivAssign(rhs) ==
    UnboundedAssign("unbounded_div_assign", rhs, Unbounded_div_assign(F, val, rhs))

\* -u
UnboundedNeg == ApplyUnbounded("unbounded_neg", <<>>, Unbounded_neg(val))

\* the inputs of an action are drawn only where the action is enabled
Fresh == ty = "none"

HasAngle == ty = "Angle" /\ n < MaxOps

HasUnbounded == ty = "AngleUnbounded" /\ n < MaxOps

\* the operations that keep or put an angle in the main range
NextBounded ==
    \/ Fresh /\ \E unit \in Units : \E x \in RawInputs(F, unit) : New(unit, x)
    \/ Fresh /\ \E c \in ConstNames : NewConst(c)
    \/ Fresh /\ \E type \in {"Angle", "AngleUnbounded"} : \E wrapper \in Wrappers :
           \E v \in WireValues : Deserialize(type, wrapper, v)
    \/ Fresh /\ \E inclusive \in BOOLEAN : \E low, high \in RangeBounds(F) :
           \E x \in Draws(F, UniformAngle_new(F, low, high).low, UniformAngle_new(F, low, high).high, inclusive) :
               GenRange(inclusive, low, high, x)
    \/ Fresh /\ \E type \in {"Angle", "AngleUnbounded"} : \E x \in StandardDraws(F) : NewStandard(type, x)
    \/ Fresh /\ \E z \in {Zero(0), Zero(1)} : \E rs \in SumInputs : SumOf(z, rs)
    \/ Fresh /\ \E unit \in Units : \E x \in RawInputs(F, unit) : NewUnbounded(unit, x)
    \/ HasAngle /\ \E rhs \in OperandAngles(F) : Add(rhs)
    \/ HasAngle /\ \E rhs \in OperandAngles(F) : Sub(rhs)
    \/ HasAngle /\ \E rhs \in Scalars(F) : Mul(rhs)
    \/ HasAngle /\ \E rhs \in Scalars(F) : Div(rhs)
    \/ HasAngle /\ \E rhs \in AssignOperands(F) : AddAssign(rhs)
    \/ HasAngle /\ \E rhs \in AssignOperands(F) : SubAssign(rhs)
    \/ HasAngle /\ \E rhs \in AssignScalars(F) : MulAssign(rhs)
    \/ HasAngle /\ \E rhs \in AssignScalars(F) : DivAssign(rhs)
    \/ Neg
    \/ HasAngle /\ \E z \in {Zero(0), Zero(1)} : \E xs \in SeqsUpTo(SumAngles(F), MaxSumLen) : Sum(z, xs)
    \/ ToF32
    \/ ToUnbounded
    \/ ToBounded

\* the arithmetic of AngleUnbounded
NextUnbounded ==
    \/ HasUnbounded /\ \E rhs \in UnboundedOperands(F) : UnboundedAdd(rhs)
    \/ HasUnbounded /\ \E rhs \in UnboundedOperands(F) : UnboundedSub(rhs)
    \/ HasUnbounded /\ \E rhs \in UnboundedScalars(F) : UnboundedMul(rhs)
    \/ HasUnbounded /\ \E rhs \in UnboundedScalars(F) : UnboundedDiv(rhs)
    \/ HasUnbounded /\ \E rhs \in UnboundedAssignOperands(F) : UnboundedAddAssign(rhs)
    \/ HasUnbounded /\ \E rhs \in UnboundedAssignOperands(F) : UnboundedSubAssign(rhs)
    \/ HasUnbounded /\ \E rhs \in UnboundedAssignScalars(F) : UnboundedMulAssign(rhs)
    \/ HasUnbounded /\ \E rhs \in UnboundedAssignScalars(F) : UnboundedDivAssign(rhs)
    \/ UnboundedNeg
    \/ Fresh /\ \E inclusive \in BOOLEAN : \E low, high \in UnboundedBounds(F) :
           \/ GenRangeUnboundedEmpty(inclusive, low, high)
           \/ \E x \in Draws(F, low.radians, high.radians, inclusive) :
                  GenRangeUnbounded(inclusive, low, high, x)

Next == NextBounded \/ ToF64 \/ NextUnbounded

Spec == Init /\ [][Next]_vars

\* without the widening conversion Angle<f32>::to_f64
SpecBounded == Init /\ [][NextBounded]_vars

\* the main range (-PI, PI] of the type F, and NaN
InRange(T, r) == IsNaN(r) \/ (FLt(FNeg(PI(T)), r) /\ FLe(r, PI(T)))

TypeOK ==
    /\ F \in {F32, F64}
    /\ ty \in {"none", "Angle", "AngleUnbounded", "panic"}
    /\ n \in 0..MaxOps

(***************************************************************************)
(* Exact arithmetic on the values of floats, used to state properties.     *)
(***************************************************************************)

\* the finite value a is an integer multiple of the finite non-zero value b
Multiple(a, b) ==
    \/ IsZero(a)
    \/ LET e0 == IF a.e < b.e THEN a.e ELSE b.e
       IN  BMod(BShl(a.m, a.e - e0), BShl(b.m, b.e - e0)) = <<>>

Constructors == {"from_radians", "from_degrees", "from_turns", "from_gradians"}

\* the current value is a bounded angle just built by a constructor from a finite input
\* the input of the constructor that built the current value
Input == last.args[1]

Built == ty = "Angle" /\ last.op \in Constructors /\ IsFinite(Input)

(***************************************************************************)
(* C1: for every finite input x and each of the four bounded constructors, *)
(* the value returned by to_radians() is NaN or lies in (-PI, PI].         *)
(***************************************************************************)
C1_ConstructorsInRange == Built => InRange(F, to_radians(val))

\* from_gradians(500.0) is reduced by one turn to a quarter turn
C1_Witness ==
    /\ Built
    /\ last.op = "from_gradians"
    /\ Input = FInt(500)
    /\ FGt(to_radians(val), ZERO(F))
    /\ FLt(to_radians(val), PI(F))

(***************************************************************************)
(* C2: after any sequence of bounded-angle operations (the normalizing     *)
(* constructors, +, -, scalar * and /, unary -, Sum, the assignment forms, *)
(* conversion from AngleUnbounded and to_f32) starting from constructed    *)
(* values or named constants, every Angle stores NaN or a value in         *)
(* (-PI, PI].                                                              *)
(***************************************************************************)
C2_OperationsInRange == ty = "Angle" => InRange(F, val.radians)

\* narrowing the f64 angle next above -PI rounds to -PI in f32 and is stored as PI
C2_Witness ==
    /\ ty = "Angle"
    /\ last.op = "to_f32"
    /\ last.prev = FNeg(Ulps(F64, PI(F64), -1))
    /\ val.radians = PI(F32)

(***************************************************************************)
(* C3: for every finite r, from_radians(r) stores the unique r' congruent  *)
(* to r modulo TAU with -PI < r' <= PI, obtained as the truncating         *)
(* remainder m = r % TAU (in (-TAU, TAU), with the sign of r) followed by  *)
(* at most one correction: minus TAU if m > PI, plus TAU if m <= -PI,      *)
(* otherwise m is kept.                                                    *)
(***************************************************************************)
C3_FromRadiansRepresentative ==
    (Built /\ last.op = "from_radians") =>
        LET r == Input
            v == val.radians
            m == FRem(r, TAU(F))
            d == FSub(Exact, m, v)
        IN  /\ IsFinite(v) /\ FLt(FNeg(PI(F)), v) /\ FLe(v, PI(F))
            /\ IsFinite(m) /\ FLt(FNeg(TAU(F)), m) /\ FLt(m, TAU(F)) /\ m.s = r.s
            /\ Multiple(FSub(Exact, r, m), TAU(F))
            /\ IF FGt(m, PI(F)) THEN d = TAU(F)
               ELSE IF FLe(m, FNeg(PI(F))) THEN d = FNeg(TAU(F))
               ELSE v = m
            /\ Multiple(FSub(Exact, r, v), TAU(F))
            /\ \A c \in {TAU(F), FNeg(TAU(F))} : ~InRange(F, FAdd(Exact, v, c))

\* the float next above PI is stored as the float next above -PI
C3_Witness ==
    /\ Built
    /\ last.op = "from_radians"
    /\ Input = Ulps(F, PI(F), 1)
    /\ FLt(val.radians, ZERO(F))
    /\ FSub(Exact, Input, val.radians) = TAU(F)
(***************************************************************************)
(* C4: bounded angles built from degree values that differ by an exact     *)
(* multiple of 360 are equal: from_degrees(x) equals from_degrees(x+360k) *)
(* for every finite x and integer k, in particular for 90, 450 and -270.   *)
(***************************************************************************)
C4_DegreesPeriodic ==
    (Built /\ last.op = "from_degrees") =>
        \A k \in {-1, 1} :
            LET y == FAdd(F, Input, FInt(360 * k))
            IN  y = FAdd(Exact, Input, FInt(360 * k)) => AngleEq(val, from_degrees(F, y))
(***************************************************************************)
(* C5: the canonical interval is left-open and right-closed:               *)
(* from_radians(PI) equals from_radians(-PI), both store +PI, and no       *)
(* normalizing constructor or operator ever stores -PI.                    *)
(***************************************************************************)
C5_PiStoredNegPiNever ==
    /\ ty = "Angle" => val.radians # FNeg(PI(F))
    /\ (Built /\ last.op = "from_radians" /\ Input \in {PI(F), FNeg(PI(F))}) =>
           /\ val.radians = PI(F)
           /\ AngleEq(val, from_radians(F, FNeg(Input)))

\* from_radians(-PI) stores +PI
C5_Witness == Built /\ last.op = "from_radians" /\ Input = FNeg(PI(F)) /\ val.radians = PI(F)

(***************************************************************************)
(* C6: unary negation returns the angle itself when it stores exactly PI,  *)
(* and otherwise the angle storing the negated value with no               *)
(* re-normalization; negating an in-range angle gives an in-range angle.   *)
(***************************************************************************)
C6_NegFixedPointAtPi ==
    (ty = "Angle" /\ last.op = "neg") =>
        /\ IF FEq(last.prev, PI(F)) THEN val.radians = last.prev
           ELSE val.radians = FNeg(last.prev)
        /\ InRange(F, last.prev) => InRange(F, val.radians)

\* -Angle::PI is Angle::PI
C6_Witness == ty = "Angle" /\ last.op = "neg" /\ last.prev = PI(F) /\ val.radians = PI(F)

(***************************************************************************)
(* C7: constructing a bounded angle from NaN, +infinity or -infinity with  *)
(* any of the four constructors yields an angle whose is_nan() is true,    *)
(* for both f32 and f64.                                                   *)
(***************************************************************************)
C7_NonFiniteInputIsNaN ==
    (ty = "Angle" /\ last.op \in Constructors /\ ~IsFinite(Input)) => is_nan(val)

\* Angle::<f64>::from_turns(-infinity) is the NaN angle
C7_Witness ==
    /\ ty = "Angle"
    /\ F = F64
    /\ last.op = "from_turns"
    /\ Input = Inf(1)
    /\ is_nan(val)
(***************************************************************************)
(* C8: every bounded-angle operator (+, -, scalar *, scalar /, unary -,    *)
(* Sum) that receives a NaN-valued angle, or whose raw radian intermediate *)
(* is non-finite (such as a non-NaN angle divided by 0.0), returns a       *)
(* NaN-valued Angle rather than failing.                                   *)
(***************************************************************************)
Operators == {"add", "sub", "mul", "div", "neg", "sum"}

\* the radians the last operator computed before normalizing them
RawResult ==
    CASE last.op = "add" -> FAdd(F, last.prev, last.args[1])
      [] last.op = "sub" -> FSub(F, last.prev, last.args[1])
      [] last.op = "mul" -> FMul(F, last.prev, last.args[1])
      [] last.op = "div" -> FDiv(F, last.prev, last.args[1])
      [] last.op = "neg" -> FNeg(last.prev)
      [] last.op = "sum" -> FSum(F, last.args[1], <<last.prev>> \o Tail(last.args))

NaNOperand ==
    \/ IsNaN(last.prev)
    \/ last.op \in {"add", "sub", "sum"} /\ \E i \in 1..Len(last.args) : IsNaN(last.args[i])

C8_OperatorsPropagateNaN ==
    (ty = "Angle" /\ last.op \in Operators /\ (NaNOperand \/ ~IsFinite(RawResult))) =>
        is_nan(val) /\ ok

\* Angle::FRAC_PI_2 / 0.0 is the NaN angle
C8_Witness ==
    /\ ty = "Angle"
    /\ last.op = "div"
    /\ last.prev = Consts(F).FRAC_PI_2
    /\ last.args = <<Zero(0)>>
    /\ is_nan(val)

(***************************************************************************)
(* C9: for the largest finite inputs (MAX and MIN of f32 and f64) each of  *)
(* the four constructors yields a non-NaN bounded angle; for every finite  *)
(* x no intermediate of a constructor overflows, which for from_turns      *)
(* relies on the remainder by one turn taken before the product with TAU.  *)
(***************************************************************************)
UnitOf(op) == CHOOSE unit \in Units : op = "from_" \o unit

\* the values a constructor computes from x before the correcting step
Intermediates(T, unit, x) ==
    CASE unit = "radians"  -> {FRem(x, TAU(T))}
      [] unit = "degrees"  -> {FMul(T, x, DEG_TO_RAD(T)), FRem(FMul(T, x, DEG_TO_RAD(T)), TAU(T))}
      [] unit = "turns"    -> {FRem(x, ONE(T)), FMul(T, FRem(x, ONE(T)), TURNS_TO_RAD(T))}
      [] unit = "gradians" -> {FMul(T, x, GRAD_TO_RAD(T)), FRem(FMul(T, x, GRAD_TO_RAD(T)), TAU(T))}

C9_LargestInputsNoOverflow ==
    Built =>
        /\ ~is_nan(val)
        /\ IsFinite(val.radians)
        /\ \A v \in Intermediates(F, UnitOf(last.op), Input) : IsFinite(v)
        /\ (last.op = "from_turns" /\ Input \in {MAX(F), MIN(F)}) =>
               IsInf(FMul(F, Input, TURNS_TO_RAD(F)))

\* Angle::<f32>::from_turns(f32::MAX) is a whole number of turns: the zero angle
C9_Witness ==
    /\ Built
    /\ F = F32
    /\ last.op = "from_turns"
    /\ Input = MAX(F32)
    /\ IsZero(val.radians)

(***************************************************************************)
(* C10: for every non-NaN bounded angle a, a.to_unbounded() stores exactly *)
(* a.to_radians() and a.to_unbounded().to_bounded() equals a.              *)
(***************************************************************************)
C10_UnboundedRoundTrip ==
    (ty = "AngleUnbounded" /\ last.op = "to_unbounded" /\ ~IsNaN(last.prev)) =>
        /\ Unbounded_to_radians(val) = last.prev
        /\ AngleEq(to_bounded(F, val), from_radians_unchecked(last.prev))

\* an unbounded angle has just been built from a finite value
UnboundedConstructors == {"unbounded_from_" \o unit : unit \in Units}

UnboundedUnitOf(op) == CHOOSE unit \in Units : op = "unbounded_from_" \o unit

BuiltUnbounded == ty = "AngleUnbounded" /\ last.op \in UnboundedConstructors /\ IsFinite(Input)

(***************************************************************************)
(* C11 as stated: for every finite x and each of the four units, turns     *)
(* included, AngleUnbounded::from_unit(x).to_bounded() equals              *)
(* Angle::from_unit(x).                                                    *)
(***************************************************************************)
C11_UnboundedThenBoundedAllUnits ==
    BuiltUnbounded =>
        AngleEq(to_bounded(F, val), Construct(F, UnboundedUnitOf(last.op), Input))

(***************************************************************************)
(* C11: for every finite x and each of the units radians, degrees and      *)
(* gradians, AngleUnbounded::from_unit(x).to_bounded() is the same bounded *)
(* angle as Angle::from_unit(x), with the same stored radians.             *)
(***************************************************************************)
C11_UnboundedThenBounded ==
    (BuiltUnbounded /\ UnboundedUnitOf(last.op) # "turns") =>
        /\ AngleEq(to_bounded(F, val), Construct(F, UnboundedUnitOf(last.op), Input))
        /\ to_bounded(F, val) = Construct(F, UnboundedUnitOf(last.op), Input)

\* AngleUnbounded::<f32>::from_degrees(450.0): more than a turn, normalised to the
\* angle that Angle::from_degrees(450.0) stores
C11_Witness ==
    /\ BuiltUnbounded
    /\ F = F32
    /\ last.op = "unbounded_from_degrees"
    /\ Input = FInt(450)
    /\ FGt(val.radians, TAU(F))
    /\ AngleEq(to_bounded(F, val), from_degrees(F, Input))

(***************************************************************************)
(* C12: unbounded constructors never normalize:                            *)
(* AngleUnbounded::from_radians(x).to_radians() is x itself for every x,   *)
(* and values that differ by whole turns stay distinct, in particular      *)
(* AngleUnbounded::from_degrees(90.0) differs from from_degrees(450.0).    *)
(***************************************************************************)
C12_UnboundedNeverNormalizes ==
    /\ (ty = "AngleUnbounded" /\ last.op = "unbounded_from_radians") =>
           Unbounded_to_radians(val) = Input
    /\ (BuiltUnbounded /\ last.op = "unbounded_from_degrees") =>
           \A k \in {-1, 1} :
               LET y == FAdd(F, Input, FInt(360 * k))
               IN  y = FAdd(Exact, Input, FInt(360 * k)) =>
                       ~AngleEq(val, Unbounded_from_degrees(F, y))

\* AngleUnbounded::from_degrees(90.0) is a quarter turn, from_degrees(450.0) is not
C12_Witness ==
    /\ BuiltUnbounded
    /\ last.op = "unbounded_from_degrees"
    /\ Input = FInt(90)
    /\ AngleEq(val, Unbounded_from_radians(Consts(F).FRAC_PI_2))
    /\ ~AngleEq(val, Unbounded_from_degrees(F, FInt(450)))

UnboundedOperators ==
    {"unbounded_add", "unbounded_sub", "unbounded_mul", "unbounded_div", "unbounded_neg"}

(***************************************************************************)
(* C13: unbounded arithmetic is the float arithmetic on the stored radians *)
(* with no wrapping: the radians of a + b, a - b, a * k, a / k and -a are  *)
(* the float sum, difference, product, quotient and negation of the        *)
(* operands' radians, so a result may lie outside the main range.          *)
(***************************************************************************)
C13_UnboundedArithmeticPlain ==
    (ty = "AngleUnbounded" /\ last.op \in UnboundedOperators) =>
        Unbounded_to_radians(val) =
            CASE last.op = "unbounded_add" -> FAdd(F, last.prev, Input)
              [] last.op = "unbounded_sub" -> FSub(F, last.prev, Input)
              [] last.op = "unbounded_mul" -> FMul(F, last.prev, Input)
              [] last.op = "unbounded_div" -> FDiv(F, last.prev, Input)
              [] last.op = "unbounded_neg" -> FNeg(last.prev)

\* from_radians(PI) + from_radians(TAU) stores PI + TAU, more than a turn
C13_Witness ==
    /\ ty = "AngleUnbounded"
    /\ last.op = "unbounded_add"
    /\ last.prev = PI(F)
    /\ Input = TAU(F)
    /\ FGt(val.radians, TAU(F))
    /\ ~InRange(F, val.radians)

(***************************************************************************)
(* C14: for every non-NaN bounded angle the unit getters return values in  *)
(* the stated ranges: to_degrees() in (-180, 180], to_turns() in           *)
(* (-0.5, 0.5] and to_gradians() in (-200, 200].                           *)
(***************************************************************************)
C14_GettersInRange ==
    (ty = "Angle" /\ ~is_nan(val)) =>
        LET half == Mk(0, BOne, -1)
        IN  /\ FLt(FInt(-180), to_degrees(F, val)) /\ FLe(to_degrees(F, val), FInt(180))
            /\ FLt(FNeg(half), to_turns(F, val)) /\ FLe(to_turns(F, val), half)
            /\ FLt(FInt(-200), to_gradians(F, val)) /\ FLe(to_gradians(F, val), FInt(200))

(***************************************************************************)
(* C15: the named constant Angle32::QUARTER reads back exactly in every    *)
(* unit: to_radians() is PI/2 (the f32 1.5707964), to_degrees() is 90.0,   *)
(* to_turns() is 0.25 and to_gradians() is 100.0.                          *)
(***************************************************************************)
C15_QuarterReadsBack ==
    (F = F32 /\ ty = "Angle" /\ last.op = "const_FRAC_PI_2") =>
        /\ FEq(to_radians(val), FDiv(F32, PI(F32), FInt(2)))
        /\ FEq(to_radians(val), FDec(F32, <<15707964>>, 7))
        /\ FEq(to_degrees(F32, val), FInt(90))
        /\ FEq(to_turns(F32, val), Mk(0, BOne, -2))
        /\ FEq(to_gradians(F32, val), FInt(100))

\* Angle32::QUARTER has been taken and reads 100 gradians
C15_Witness ==
    /\ F = F32
    /\ ty = "Angle"
    /\ last.op = "const_FRAC_PI_2"
    /\ n = 0
    /\ to_gradians(F32, val) = FInt(100)

(***************************************************************************)
(* C16: widening any non-NaN bounded Angle<f32>, the one whose radians are *)
(* the f32 constant PI included, to Angle<f64> with to_f64 needs no        *)
(* normalization: the widened radians satisfy -PI < r <= PI for the f64    *)
(* constant PI, so the assertion in to_f64 holds.                          *)
(***************************************************************************)
C16_WideningInRange ==
    (ty = "Angle" /\ last.op = "to_f64" /\ ~IsNaN(last.prev) /\ InRange(F32, last.prev)) =>
        /\ ok
        /\ FLt(FNeg(PI(F64)), val.radians)
        /\ FLe(val.radians, PI(F64))

(***************************************************************************)
(* C17: for every Angle<f32> a already in the canonical range, widening    *)
(* then narrowing reproduces the original exactly: a.to_f64() completes    *)
(* and a.to_f64().to_f32() equals a.                                       *)
(***************************************************************************)
C17_WidenThenNarrow ==
    (ty = "Angle" /\ last.op = "to_f64" /\ ~IsNaN(last.prev) /\ InRange(F32, last.prev)) =>
        /\ ok
        /\ AngleEq(to_f32(val), from_radians_unchecked(last.prev))

\* the narrowing half alone: the radians of a come back from to_f32
C17_NarrowingRestores ==
    (ty = "Angle" /\ last.op = "to_f64" /\ ~IsNaN(last.prev) /\ InRange(F32, last.prev)) =>
        AngleEq(to_f32(val), from_radians_unchecked(last.prev))

(***************************************************************************)
(* C18: narrowing any in-range Angle<f64> with to_f32 normalizes again     *)
(* after rounding: the stored value of the result is NaN or lies in the    *)
(* f32 canonical range, also when rounding the f64 value to f32 moves it   *)
(* past PI.                                                                *)
(***************************************************************************)
C18_NarrowingNormalizes ==
    (ty = "Angle" /\ last.op = "to_f32" /\ InRange(F64, last.prev)) =>
        /\ ok
        /\ IsNaN(val.radians) \/ (FLt(FNeg(PI(F32)), val.radians) /\ FLe(val.radians, PI(F32)))
        /\ IsNaN(val.radians) <=> IsNaN(last.prev)

\* the f64 value next above -PI rounds to the f32 -PI, which to_f32 stores as +PI
C18_Witness ==
    /\ ty = "Angle"
    /\ last.op = "to_f32"
    /\ FLt(FNeg(PI(F64)), last.prev)
    /\ FCast(F32, last.prev) = FNeg(PI(F32))
    /\ val.radians = PI(F32)

\* the angles that were summed, as stored
Summed == [i \in 1..Len(last.args) |-> from_radians_unchecked(last.args[i])]

\* the tolerance 1e-5 of the test, an f32
Tolerance == Dec32(1, 5)

(***************************************************************************)
(* C19 as stated: for any sequence of about 20 in-range angles in single   *)
(* precision, the Sum of the sequence and the fold of the sequence with +  *)
(* from Angle::ZERO store radians that agree within 1e-5.                  *)
(***************************************************************************)
C19_SumAgreesWithFoldAnySequence ==
    (ty = "Angle" /\ last.op = "sum_of") =>
        abs_le(F, to_radians(val), to_radians(fold_add(F, Summed)), Tolerance)

(***************************************************************************)
(* C19: for the 20 angles of the test angle_sum_is_accurate, in single     *)
(* precision, the Sum of the sequence (raw radians accumulated, normalized *)
(* once) and the fold of the sequence with + from Angle::ZERO (normalized  *)
(* after every addition) store radians that agree within 1e-5.             *)
(***************************************************************************)
C19_SumAgreesWithFold ==
    (ty = "Angle" /\ last.op = "sum_of" /\ last.args = Radians(map_from_radians(F32, ANGLES))) =>
        /\ ok
        /\ abs_le(F, to_radians(val), to_radians(fold_add(F, Summed)), Tolerance)

\* the test's sequence has been summed: the raw sum was above PI, and the two
\* results differ in their last bits
C19_Witness ==
    /\ ty = "Angle"
    /\ last.op = "sum_of"
    /\ last.args = Radians(map_from_radians(F32, ANGLES))
    /\ FGt(FSum(F, Zero(0), last.args), PI(F))
    /\ ~AngleEq(val, fold_add(F, Summed))
    /\ abs_le(F, to_radians(val), to_radians(fold_add(F, Summed)), Tolerance)

\* an angle has just been built from finite radians r with lo <= r <= hi
BuiltFromRadiansIn(lo, hi) ==
    Built /\ last.op = "from_radians" /\ FLe(lo, Input) /\ FLe(Input, hi)

(***************************************************************************)
(* C20 as stated: from_radians_partially_unchecked (subtract TAU above PI, *)
(* add TAU at or below -PI, no remainder) returns the same result as       *)
(* from_radians for every input r with -2 TAU <= r <= 2 TAU.               *)
(***************************************************************************)
C20_FastVariantAgreesTwoTurns ==
    BuiltFromRadiansIn(FMul(F, FInt(-2), TAU(F)), FMul(F, FInt(2), TAU(F))) =>
        AngleEq(from_radians_partially_unchecked(F, Input), val)

(***************************************************************************)
(* C20: from_radians_partially_unchecked returns a result equal to that of *)
(* from_radians for every input r with -TAU <= r <= TAU, the domain its    *)
(* assertion states; the result lies in the main range.                    *)
(***************************************************************************)
C20_FastVariantAgrees ==
    BuiltFromRadiansIn(FNeg(TAU(F)), TAU(F)) =>
        /\ partially_unchecked_assert(F, Input)
        /\ AngleEq(from_radians_partially_unchecked(F, Input), val)
        /\ InRange(F, from_radians_partially_unchecked(F, Input).radians)

\* a whole turn: both variants give the zero angle
C20_Witness ==
    /\ BuiltFromRadiansIn(FNeg(TAU(F)), TAU(F))
    /\ Input = TAU(F)
    /\ IsZero(val.radians)
    /\ IsZero(from_radians_partially_unchecked(F, Input).radians)

(***************************************************************************)
(* C21: no constructor, getter, conversion or arithmetic operator of Angle *)
(* or AngleUnbounded trips an assertion, for any floating-point input and  *)
(* any angle obtained from the normalizing constructors, the operators and *)
(* the named constants; an anomalous input shows only as a NaN angle.      *)
(***************************************************************************)
C21_NoAssertionFails == ok

(***************************************************************************)
(* C24: the Standard distribution maps every draw x of [0, 1) to the       *)
(* radians -(x * TAU - PI), which lie in (-PI, PI], for Angle and for      *)
(* AngleUnbounded: the value stored unchecked is in range and the          *)
(* assertion of the sampler holds.                                         *)
(***************************************************************************)
C24_StandardInRange ==
    (last.op = "standard") =>
        /\ ok
        /\ val.radians = FNeg(FSub(F, FMul(F, Input, TAU(F)), PI(F)))
        /\ FLt(FNeg(PI(F)), val.radians)
        /\ FLe(val.radians, PI(F))

\* the largest draw gives the radians nearest to -PI, the draw 0 would give PI
C24_Witness ==
    /\ last.op = "standard"
    /\ ty = "AngleUnbounded"
    /\ Input = PredOne(F)
    /\ FLt(val.radians, FNeg(Consts(F).FRAC_PI_2))
    /\ Standard_sample(F, Zero(0)).radians = PI(F)

\* the bounds and the draw of a sampled range
RangeLow == from_radians_unchecked(last.args[1])

RangeHigh == from_radians_unchecked(last.args[2])

\* a lies on the arc that goes counterclockwise from low to high
OnArc(low, high, a) ==
    IF FLe(low.radians, high.radians)
    THEN FLe(low.radians, a.radians) /\ FLe(a.radians, high.radians)
    ELSE FLe(low.radians, a.radians) \/ FLe(a.radians, high.radians)

(***************************************************************************)
(* C22: sampling a range of bounded angles whose bounds satisfy low > high *)
(* is no error: TAU is added to the high bound, a float is drawn on the    *)
(* linear range and normalized, so every sample lies on the arc that goes  *)
(* counterclockwise from low to high; from 90 degrees to -90 degrees every *)
(* sample has cos <= 0 and from -90 degrees to 90 degrees cos >= 0.        *)
(***************************************************************************)
C22_SamplesOnArc ==
    (ty = "Angle" /\ last.op = "gen_range") =>
        /\ ok
        /\ OnArc(RangeLow, RangeHigh, val)
        /\ (RangeLow = AngleConst(F, "FRAC_PI_2") /\ RangeHigh = neg(F, AngleConst(F, "FRAC_PI_2")))
               => cos_sign(val) <= 0
        /\ (RangeLow = neg(F, AngleConst(F, "FRAC_PI_2")) /\ RangeHigh = AngleConst(F, "FRAC_PI_2"))
               => cos_sign(val) >= 0

(***************************************************************************)
(* C23: sampling a range of unbounded angles follows the order of the      *)
(* bounds: with low < high it succeeds and returns the value drawn between *)
(* the bounds, not wrapped; with low > high the range is empty and the     *)
(* call panics, it never returns a sample taken the other way round.       *)
(***************************************************************************)
C23_UnboundedRangeOrdered ==
    (last.op = "gen_range_unbounded") =>
        /\ FLt(last.args[1], last.args[2]) =>
               /\ ty = "AngleUnbounded"
               /\ Unbounded_to_radians(val) = last.args[3]
               /\ FLe(last.args[1], val.radians)
               /\ FLe(val.radians, last.args[2])
        /\ FGt(last.args[1], last.args[2]) => ty = "panic"

\* from 0 to 450 degrees a sample above PI is returned as it was drawn
C23_Witness ==
    /\ last.op = "gen_range_unbounded"
    /\ ty = "AngleUnbounded"
    /\ IsZero(last.args[1])
    /\ FGt(val.radians, TAU(F))
    /\ FLt(val.radians, last.args[2])

\* an angle has just been deserialized; the wrapper it was read into and its unit
Deserialized == last.op \in {"deserialize_" \o w : w \in Wrappers}

WrapperOf(op) == CHOOSE w \in Wrappers : op = "deserialize_" \o w

WireUnit == IF WrapperOf(last.op) = "bare" THEN "radians" ELSE WrapperOf(last.op)

\* const TOLERANCE: f32 = 0.00001 of the serde tests
TOLERANCE == Dec32(1, 5)

(***************************************************************************)
(* C25: deserialization goes through the constructor of the unit and       *)
(* serialization through its getter, radians for a bare angle: a value v   *)
(* read into a wrapper of Angle is written back as the representative of v *)
(* in the main range of the unit (270 degrees as -90 degrees), and read    *)
(* into a wrapper of AngleUnbounded it is written back unwrapped (50 turns *)
(* as 50 turns).                                                           *)
(***************************************************************************)
C25_SerdeThroughUnits ==
    Deserialized =>
        LET out == serialize(F, WrapperOf(last.op), val)
            half == CASE WireUnit = "radians"  -> PI(F)
                      [] WireUnit = "degrees"  -> FInt(180)
                      [] WireUnit = "turns"    -> Mk(0, BOne, -1)
                      [] WireUnit = "gradians" -> FInt(200)
        IN  /\ ok
            /\ val = IF ty = "Angle" THEN Construct(F, WireUnit, Input)
                     ELSE ConstructUnbounded(F, WireUnit, Input)
            /\ out = CASE WireUnit = "radians"  -> val.radians
                       [] WireUnit = "degrees"  -> FMul(F, val.radians, RAD_TO_DEG(F))
                       [] WireUnit = "turns"    -> FMul(F, val.radians, RAD_TO_TURNS(F))
                       [] WireUnit = "gradians" -> FMul(F, val.radians, RAD_TO_GRAD(F))
            /\ ty = "Angle" => FLt(FNeg(half), out) /\ FLe(out, half)
            /\ (ty = "Angle" /\ WireUnit = "degrees" /\ Input = FInt(270)) =>
                   abs_le(F, out, FInt(-90), TOLERANCE)
            /\ (ty = "AngleUnbounded" /\ FGt(Input, half)) => FGt(out, half)
            /\ (ty = "AngleUnbounded" /\ WireUnit = "turns" /\ Input = FInt(50)) =>
                   FEq(out, FInt(50))
            /\ (ty = "AngleUnbounded" /\ WireUnit = "gradians" /\ Input = FInt(150)) =>
                   abs_le(F, out, FInt(150), TOLERANCE)

\* 50 turns read into Turns<AngleUnbounded<f32>>: many turns stored, 50 written back
C25_Witness ==
    /\ Deserialized
    /\ F = F32
    /\ ty = "AngleUnbounded"
    /\ WrapperOf(last.op) = "turns"
    /\ Input = FInt(50)
    /\ FGt(val.radians, FInt(314))
    /\ serialize(F, "turns", val) = FInt(50)

\* an angle has just been added to or subtracted from the angle a, both not NaN
AddedOrSubtracted ==
    ty = "Angle" /\ last.op \in {"add", "sub"} /\ ~IsNaN(last.prev) /\ ~IsNaN(Input)

\* the raw sum or difference of the radians
RawSum == IF last.op = "add" THEN FAdd(F, last.prev, Input) ELSE FSub(F, last.prev, Input)

(***************************************************************************)
(* C26: for all non-NaN bounded angles a and b the raw sum and the raw     *)
(* difference of the radians lie within one turn of zero, so a + b and     *)
(* a - b, computed with the remainder of from_radians, equal the single    *)
(* correction applied to the raw sum or difference.                        *)
(***************************************************************************)
C26_SumWithinOneTurn ==
    AddedOrSubtracted =>
        /\ FLe(FNeg(TAU(F)), RawSum)
        /\ FLe(RawSum, TAU(F))
        /\ AngleEq(val, from_radians_partially_unchecked(F, RawSum))

\* an unbounded angle v has just been added to or subtracted from u, both finite
UnboundedAddedOrSubtracted ==
    /\ ty = "AngleUnbounded"
    /\ last.op \in {"unbounded_add", "unbounded_sub"}
    /\ IsFinite(last.prev)
    /\ IsFinite(Input)

\* u.to_bounded() + v.to_bounded(), u.to_bounded() - v.to_bounded()
BoundedThenOperated ==
    LET u == to_bounded(F, Unbounded_from_radians(last.prev))
        v == to_bounded(F, Unbounded_from_radians(Input))
    IN  IF last.op = "unbounded_add" THEN add(F, u, v) ELSE sub(F, u, v)

AssignOps ==
    {"add_assign", "sub_assign", "mul_assign", "div_assign",
     "unbounded_add_assign", "unbounded_sub_assign", "unbounded_mul_assign", "unbounded_div_assign"}

\* a op b computed from the old left operand and the right operand
BinaryResult ==
    LET a == from_radians_unchecked(last.prev)
        b == last.args[1]
    IN  CASE last.op = "add_assign" -> add(F, a, from_radians_unchecked(b))
          [] last.op = "sub_assign" -> sub(F, a, from_radians_unchecked(b))
          [] last.op = "mul_assign" -> mul(F, a, b)
          [] last.op = "div_assign" -> div(F, a, b)
          [] last.op = "unbounded_add_assign" -> Unbounded_add(F, a, Unbounded_from_radians(b))
          [] last.op = "unbounded_sub_assign" -> Unbounded_sub(F, a, Unbounded_from_radians(b))
          [] last.op = "unbounded_mul_assign" -> Unbounded_mul(F, a, b)
          [] last.op = "unbounded_div_assign" -> Unbounded_div(F, a, b)

\* the float operation on the radians alone
RawAssigned ==
    LET a == last.prev
        b == last.args[1]
    IN  CASE last.op \in {"add_assign", "unbounded_add_assign"} -> FAdd(F, a, b)
          [] last.op \in {"sub_assign", "unbounded_sub_assign"} -> FSub(F, a, b)
          [] last.op \in {"mul_assign", "unbounded_mul_assign"} -> FMul(F, a, b)
          [] last.op \in {"div_assign", "unbounded_div_assign"} -> FDiv(F, a, b)

(***************************************************************************)
(* C28: after a op= b (op in +, -, *, /) the left operand equals a op b    *)
(* computed from the old a and the right operand is unchanged; for Angle   *)
(* the new value is re-normalized, for AngleUnbounded it is the raw        *)
(* in-place result.                                                        *)
(***************************************************************************)
C28_AssignmentIsBinary ==
    last.op \in AssignOps =>
        /\ val = BinaryResult
        /\ last.args[2] = last.args[1]
        /\ ty = "Angle" => val = from_radians(F, RawAssigned)
        /\ ty = "AngleUnbounded" => val.radians = RawAssigned

\* PI += rhs leaves the main range before it is wrapped
C28_Witness ==
    /\ last.op = "add_assign"
    /\ last.prev = PI(F)
    /\ ~InRange(F, RawAssigned)
    /\ InRange(F, val.radians)
    /\ val = BinaryResult
    /\ last.args[2] = last.args[1]

\* the operations whose result is produced by from_radians
ThroughFromRadians ==
    {"add", "sub", "mul", "div", "sum", "sum_of", "to_f32", "to_bounded",
     "add_assign", "sub_assign", "mul_assign", "div_assign"}

\* NaN or strictly between -TAU and TAU
StrictlyInsideTurn(T, r) == IsNaN(r) \/ (FLt(FNeg(TAU(T)), r) /\ FLt(r, TAU(T)))

(***************************************************************************)
(* C29: the precondition asserted by from_radians_partially_unchecked      *)
(* holds at every call site for every input: the argument handed over by   *)
(* from_radians (r % TAU) and by from_turns ((t % 1) * TAU) is NaN or      *)
(* strictly inside (-TAU, TAU), and no operation built on from_radians     *)
(* trips the assertion.                                                    *)
(***************************************************************************)
C29_PreconditionAtCallSites ==
    /\ (ty = "Angle" /\ last.op \in Constructors) =>
           /\ StrictlyInsideTurn(F, PartialArg(F, UnitOf(last.op), Input))
           /\ ok
    /\ (ty = "Angle" /\ last.op \in ThroughFromRadians) => ok

\* from_turns of the largest value below one hands over the largest value below TAU
C29_Witness ==
    /\ ty = "Angle"
    /\ last.op = "from_turns"
    /\ Input = PredOne(F)
    /\ PartialArg(F, "turns", Input) = Ulps(F, TAU(F), -1)
    /\ ok

\* the bounded angle a that has just been negated, a not NaN
Negated == ty = "Angle" /\ last.op = "neg" /\ ~IsNaN(last.prev)

(***************************************************************************)
(* C30: for every non-NaN bounded angle a, a + (-a) == Angle::ZERO and     *)
(* -(-a) == a; for a = PI, -a == a and PI + PI normalizes to zero.         *)
(***************************************************************************)
C30_NegIsInverseAndInvolution ==
    Negated =>
        LET a == from_radians_unchecked(last.prev)
        IN  /\ AngleEq(add(F, a, val), AngleConst(F, "ZERO"))
            /\ AngleEq(neg(F, val), a)
            /\ FEq(last.prev, PI(F)) => AngleEq(val, a)

\* -PI is PI, and PI + PI is the full turn that normalizes to zero
C30_Witness ==
    /\ Negated
    /\ last.prev = PI(F)
    /\ val.radians = PI(F)
    /\ FAdd(F, last.prev, val.radians) = TAU(F)
    /\ IsZero(add(F, from_radians_unchecked(last.prev), val).radians)
====
